---- MODULE Spec2Model ----
(***************************************************************************)
(* Model of src/src/index.js (modern-flow-scroll-for-spektrix): a window   *)
(* "message" listener that validates the origin of a message, coerces its  *)
(* payload, resolves the height of a fixed navigation bar and scrolls the  *)
(* host page.                                                              *)
(*                                                                         *)
(* Lengths (scroll offsets, element tops and heights, message offsets)     *)
(* are finite numbers counted in HALF PIXELS, so that Math.round has       *)
(* something to round: 5 stands for 2.5px, 4 for 2px.  Sums stay far       *)
(* inside the range of a double; overflow to Infinity is not modelled.     *)
(* JavaScript values are records [t |-> <type tag>, v |-> <payload>].      *)
(***************************************************************************)
EXTENDS Integers, Sequences, FiniteSets, TLC

VARIABLES
    instances,   \* instance id -> [status, options]: closures of initModernFlowScroll
    listeners,   \* the window's "message" listeners, in registration order
    scrollY,     \* window.scrollY
    frameTop,    \* document-relative top of the element with id "SpektrixIFrame", or NoElement
    navEl,       \* rendered height of the element matching "#nav", or NoElement
    anim,        \* target of the smooth scroll in progress, or NoAnim
    event,       \* the MessageEvent dispatched by the last step, or NoEvent
    runs,        \* what each listener did with that event, in dispatch order
    probe        \* a pure function under test: its arguments and its result

vars == <<instances, listeners, scrollY, frameTop, navEl, anim, event, runs, probe>>

(***************************************************************************)
(* JavaScript values                                                       *)
(***************************************************************************)
Undefined == [t |-> "undefined", v |-> "undefined"]
Null      == [t |-> "null", v |-> "null"]
NaN       == [t |-> "NaN", v |-> "NaN"]
PosInf    == [t |-> "Infinity", v |-> "Infinity"]
NegInf    == [t |-> "-Infinity", v |-> "-Infinity"]
JSBool(b) == [t |-> "boolean", v |-> b]
JSNum(n)  == [t |-> "number", v |-> n]
JSStr(s)  == [t |-> "string", v |-> s]
JSObj(f)  == [t |-> "object", v |-> f]
JSArr(a)  == [t |-> "array", v |-> a]
JSFun(f)  == [t |-> "function", v |-> f]

\* typeof x
TypeOf(x) ==
    CASE x.t \in {"number", "NaN", "Infinity", "-Infinity"} -> "number"
      [] x.t \in {"object", "array", "null"} -> "object"
      [] OTHER -> x.t

\* ToBoolean(x): the truthiness `if (x)`, `!x` and `x && y` test
ToBoolean(x) ==
    CASE x.t \in {"undefined", "null", "NaN"} -> FALSE
      [] x.t = "boolean" -> x.v
      [] x.t = "number" -> x.v # 0
      [] x.t = "string" -> x.v # ""
      [] OTHER -> TRUE

\* Number.isFinite(x): a number that is neither NaN nor an infinity
NumberIsFinite(x) == x.t = "number"

\* o.name, undefined when the property is absent (or o is no object)
Get(o, name) ==
    IF o.t = "object" /\ name \in DOMAIN o.v THEN o.v[name] ELSE Undefined

\* x === y
StrictEquals(x, y) == x.t = y.t /\ x.t # "NaN" /\ x = y

(***************************************************************************)
(* Strings.  Text is scanned by position, and the result of a scan is      *)
(* bound once (With) before it is used.                                    *)
(***************************************************************************)
\* F applied to the value of x
With(x, F(_)) == CHOOSE r \in {F(v) : v \in {x}} : TRUE

\* the characters of s at positions i..j (1-based), clipped to the string
Slice(s, i, j) ==
    LET from == IF i < 1 THEN 1 ELSE i
        to   == IF j > Len(s) THEN Len(s) ELSE j
    IN  IF from > to THEN "" ELSE SubSeq(s, from, to)

CharAt(s, i) == Slice(s, i, i)

\* s.endsWith(suffix)
EndsWith(s, suffix) ==
    /\ Len(suffix) <= Len(s)
    /\ SubSeq(s, Len(s) - Len(suffix) + 1, Len(s)) = suffix

\* s.includes(sub)
Includes(s, sub) ==
    \E i \in 1..(Len(s) - Len(sub) + 1) : SubSeq(s, i, i + Len(sub) - 1) = sub

\* s.indexOf(sub), 1-based; 0 when sub does not occur
IndexOf(s, sub) ==
    IF Includes(s, sub)
    THEN CHOOSE i \in 1..(Len(s) - Len(sub) + 1) :
            /\ SubSeq(s, i, i + Len(sub) - 1) = sub
            /\ \A j \in 1..(i - 1) : SubSeq(s, j, j + Len(sub) - 1) # sub
    ELSE 0

UpperAlpha == "ABCDEFGHIJKLMNOPQRSTUVWXYZ"
LowerAlpha == "abcdefghijklmnopqrstuvwxyz"
DigitChars == "0123456789"

IsUpper(c) == Len(c) = 1 /\ Includes(UpperAlpha, c)
IsAlpha(c) == Len(c) = 1 /\ (Includes(UpperAlpha, c) \/ Includes(LowerAlpha, c))
IsDigit(c) == Len(c) = 1 /\ Includes(DigitChars, c)

LowerChar(c) ==
    IF IsUpper(c) THEN CharAt(LowerAlpha, IndexOf(UpperAlpha, c)) ELSE c

\* s from position i on, in lower case
RECURSIVE LowerFrom(_, _)
LowerFrom(s, i) ==
    IF i > Len(s) THEN "" ELSE LowerChar(CharAt(s, i)) \o LowerFrom(s, i + 1)

ToLowerCase(s) == LowerFrom(s, 1)

\* the first position from i on whose character is one of stops; Len(s) + 1 if none
FirstOf(s, i, stops) ==
    IF \E k \in i..Len(s) : Includes(stops, CharAt(s, k))
    THEN CHOOSE k \in i..Len(s) :
            /\ Includes(stops, CharAt(s, k))
            /\ \A j \in i..(k - 1) : ~Includes(stops, CharAt(s, j))
    ELSE Len(s) + 1

\* the first position from i on whose character is none of chars; Len(s) + 1 if none
FirstNotOf(s, i, chars) ==
    IF \E k \in i..Len(s) : ~Includes(chars, CharAt(s, k))
    THEN CHOOSE k \in i..Len(s) :
            /\ ~Includes(chars, CharAt(s, k))
            /\ \A j \in i..(k - 1) : Includes(chars, CharAt(s, j))
    ELSE Len(s) + 1

(***************************************************************************)
(* new URL(origin).hostname                                                *)
(***************************************************************************)
Throws == [t |-> "throw", v |-> "TypeError"]

\* a scheme: a letter, then letters, digits, "+", "-" or "."
IsScheme(s) ==
    /\ s # ""
    /\ IsAlpha(CharAt(s, 1))
    /\ \A i \in 1..Len(s) :
          IsAlpha(CharAt(s, i)) \/ IsDigit(CharAt(s, i)) \/ Includes("+-.", CharAt(s, i))

SpecialSchemes == {"http", "https", "ws", "wss", "ftp"}

\* The hostname of an absolute URL written scheme://host[:port][/path...], as
\* the URL parser gives it (ASCII host, lower-cased, without the port); "" for
\* a URL with no authority (about:blank); Throws for text that is no absolute
\* URL ("null", "", "example.org") or that has an empty host under http(s).
URLHostname(origin) ==
    LET colon  == IndexOf(origin, ":")
        scheme == ToLowerCase(Slice(origin, 1, colon - 1))
        host   == Slice(origin, colon + 3, FirstOf(origin, colon + 3, ":/?#") - 1)
    IN  IF colon = 0 \/ ~IsScheme(scheme) THEN Throws
        ELSE IF Slice(origin, colon + 1, colon + 2) # "//"
             THEN IF scheme \in SpecialSchemes THEN Throws ELSE JSStr("")
        ELSE IF host = "" /\ scheme \in SpecialSchemes THEN Throws
        ELSE JSStr(ToLowerCase(host))

(***************************************************************************)
(* Numbers written as text.  A numeral is [-]digits[.5]; its value is in   *)
(* half pixels, so "120" is 240 and "2.5" is 5.                            *)
(***************************************************************************)
\* the value of the digits of s at positions i..j
RECURSIVE DecimalValue(_, _, _)
DecimalValue(s, i, j) ==
    IF j < i THEN 0
    ELSE 10 * DecimalValue(s, i, j - 1) + (IndexOf(DigitChars, CharAt(s, j)) - 1)

\* the numeral of s at position i: [ok, val, next: the position after it]
ScanNumeral(s, i) ==
    LET neg   == CharAt(s, i) = "-"
        first == IF neg THEN i + 1 ELSE i
        after == FirstNotOf(s, first, DigitChars)
        half  == Slice(s, after, after + 1) = ".5"
        mag   == 2 * DecimalValue(s, first, after - 1) + (IF half THEN 1 ELSE 0)
    IN  [ok   |-> after > first,
         val  |-> JSNum(IF neg THEN 0 - mag ELSE mag),
         next |-> IF half THEN after + 2 ELSE after]

\* StringToNumber: "" is 0, a numeral is its value, "Infinity" is +Infinity,
\* anything else is NaN
StringToNumber(s) ==
    IF s = "" THEN JSNum(0)
    ELSE IF s = "Infinity" THEN PosInf
    ELSE With(ScanNumeral(s, 1),
              LAMBDA n : IF n.ok /\ n.next = Len(s) + 1 THEN n.val ELSE NaN)

\* Number(x)
RECURSIVE ToNumber(_)
ToNumber(x) ==
    CASE TypeOf(x) = "number" -> x
      [] x.t = "undefined" -> NaN
      [] x.t = "null" -> JSNum(0)
      [] x.t = "boolean" -> JSNum(IF x.v THEN 2 ELSE 0)
      [] x.t = "string" -> StringToNumber(x.v)
      [] x.t = "array" ->
            IF Len(x.v) = 0 THEN JSNum(0)
            ELSE IF Len(x.v) = 1 /\ x.v[1].t \in {"number", "string"}
                 THEN ToNumber(x.v[1])
            ELSE NaN
      [] OTHER -> NaN

(***************************************************************************)
(* JSON.parse, for JSON text without string escapes and without exponents: *)
(* objects, arrays, strings, numerals, true, false, null, spaces between.  *)
(* A scan starts at a position and gives [ok, val, next].                  *)
(***************************************************************************)
JFail == [ok |-> FALSE, val |-> Undefined, next |-> 0]
JOk(v, next) == [ok |-> TRUE, val |-> v, next |-> next]

SkipSpaces(s, i) == FirstNotOf(s, i, " ")

\* s has a double quote at position i
ScanString(s, i) ==
    LET close == FirstOf(s, i + 1, "\"")
    IN  IF close <= Len(s) THEN JOk(JSStr(Slice(s, i + 1, close - 1)), close + 1) ELSE JFail

ScanJSONNumber(s, i) ==
    LET first == IF CharAt(s, i) = "-" THEN i + 1 ELSE i
    IN  With(ScanNumeral(s, i),
             LAMBDA n : IF n.ok /\ ~(CharAt(s, first) = "0" /\ IsDigit(CharAt(s, first + 1)))
                        THEN JOk(n.val, n.next)
                        ELSE JFail)

WithMember(f, key, val) ==
    [k \in (DOMAIN f) \cup {key} |-> IF k = key THEN val ELSE f[k]]

RECURSIVE ScanValue(_, _), ScanMembers(_, _, _), ScanElements(_, _, _)
ScanValue(s, from) ==
    With(SkipSpaces(s, from), LAMBDA i :
        CASE CharAt(s, i) = "{" ->
                With(SkipSpaces(s, i + 1), LAMBDA j :
                    IF CharAt(s, j) = "}" THEN JOk(JSObj(<<>>), j + 1)
                    ELSE ScanMembers(s, j, <<>>))
          [] CharAt(s, i) = "[" ->
                With(SkipSpaces(s, i + 1), LAMBDA j :
                    IF CharAt(s, j) = "]" THEN JOk(JSArr(<<>>), j + 1)
                    ELSE ScanElements(s, j, <<>>))
          [] CharAt(s, i) = "\"" -> ScanString(s, i)
          [] CharAt(s, i) = "-" \/ IsDigit(CharAt(s, i)) -> ScanJSONNumber(s, i)
          [] Slice(s, i, i + 3) = "true" -> JOk(JSBool(TRUE), i + 4)
          [] Slice(s, i, i + 4) = "false" -> JOk(JSBool(FALSE), i + 5)
          [] Slice(s, i, i + 3) = "null" -> JOk(Null, i + 4)
          [] OTHER -> JFail)

\* "key": value, then "," and more members, or "}"
ScanMembers(s, from, acc) ==
    With(IF CharAt(s, from) = "\"" THEN ScanString(s, from) ELSE JFail, LAMBDA key :
    With(IF key.ok THEN SkipSpaces(s, key.next) ELSE 0, LAMBDA colon :
    With(IF key.ok /\ CharAt(s, colon) = ":" THEN ScanValue(s, colon + 1) ELSE JFail, LAMBDA val :
    With(IF val.ok THEN SkipSpaces(s, val.next) ELSE 0, LAMBDA t :
        IF ~val.ok THEN JFail
        ELSE IF CharAt(s, t) = ","
             THEN With(WithMember(acc, key.val.v, val.val), LAMBDA members :
                       ScanMembers(s, SkipSpaces(s, t + 1), members))
        ELSE IF CharAt(s, t) = "}"
             THEN JOk(JSObj(WithMember(acc, key.val.v, val.val)), t + 1)
        ELSE JFail))))

\* value, then "," and more elements, or "]"
ScanElements(s, from, acc) ==
    With(ScanValue(s, from), LAMBDA val :
    With(IF val.ok THEN SkipSpaces(s, val.next) ELSE 0, LAMBDA t :
        IF ~val.ok THEN JFail
        ELSE IF CharAt(s, t) = ","
             THEN With(Append(acc, val.val), LAMBDA elements :
                       ScanElements(s, t + 1, elements))
        ELSE IF CharAt(s, t) = "]"
             THEN JOk(JSArr(Append(acc, val.val)), t + 1)
        ELSE JFail))

\* JSON.parse(text): the value, or Throws (a SyntaxError)
JSONParse(text) ==
    With(ScanValue(text, 1), LAMBDA r :
        IF r.ok /\ SkipSpaces(text, r.next) = Len(text) + 1 THEN r.val ELSE Throws)

(***************************************************************************)
(* The messages: origins and payloads                                      *)
(***************************************************************************)
Nav(path) == JSObj([type |-> JSStr("spektrix:navigated"), path |-> JSStr(path)])
Flow(offset) == JSObj([spektrixOffset |-> offset])

OrdinaryPath == "/tickets/events"
AllowedCheckoutPath == "/secure/checkout/v2/orderconfirmation"
OtherCheckoutPath == "/secure/checkout/v2/payment"

CustomDomain == "tickets.example.org"

\* event.data of the messages the frame, or anything else, posts
Payloads ==
    { Nav(OrdinaryPath),
      Nav(AllowedCheckoutPath),
      Nav(OtherCheckoutPath),
      Nav(""),
      JSObj([type |-> JSStr("spektrix:navigated")]),
      JSObj([type |-> JSStr("spektrix:navigated"), path |-> JSStr(""), spektrixOffset |-> JSNum(2)]),
      JSObj([type |-> JSStr("spektrix:navigated"), path |-> JSStr(OrdinaryPath), spektrixOffset |-> JSNum(2)]),
      Flow(JSNum(2)),
      Flow(JSNum(3)),
      Flow(JSNum(0)),
      Flow(JSNum(0 - 5)),
      Flow(NaN),
      Flow(PosInf),
      Flow(JSStr("1")),
      JSObj(<<>>),
      JSArr(<<JSNum(2)>>),
      JSNum(84),
      Null,
      JSStr("not json"),
      JSStr("42"),
      JSStr("{\"type\":\"spektrix:navigated\",\"path\":\"/tickets/events\"}"),
      JSStr("{\"spektrixOffset\": 1.5}") }

\* a few of them, for the origins that are not let in
FewPayloads ==
    {Nav(OrdinaryPath), Flow(JSNum(2)), JSStr("{\"spektrixOffset\": 1.5}"), JSStr("not json")}

Messages ==
    [origin : {"https://system.spektrix.com"}, data : Payloads]
    \cup [origin : {"https://tickets.example.org", "https://evilspektrix.com", "null"},
          data : FewPayloads]

MultiMessages ==
    [origin : {"https://system.spektrix.com", "https://tickets.example.org"},
     data : {Nav(OrdinaryPath), Flow(JSNum(2))}]
    \cup [origin : {"https://evilspektrix.com"}, data : {Flow(JSNum(2))}]

\* event.origin of the messages given to isAllowedOrigin alone (SpecPure)
ProbeOrigins ==
    { "https://system.spektrix.com",
      "http://box.office.spektrix.com:8080",
      "HTTPS://SYSTEM.SPEKTRIX.COM",
      "https://spektrix.com",
      "https://evilspektrix.com",
      "https://system.spektrix.com.evil.org",
      "https://tickets.example.org",
      "https://tickets.example.org:8443",
      "https://evil.example.org",
      "https://www.tickets.example.org",
      "about:blank",
      "null",
      "",
      "tickets.example.org",
      "https://" }

\* values given to coerceMessageData alone (SpecPure), each with what
\* normalize(raw) is to return for it: raw for an object that is no array, the
\* object for the text of one, null for anything else
ProbeData ==
    { <<Nav(OrdinaryPath), Nav(OrdinaryPath)>>,
      <<Flow(JSNum(3)), Flow(JSNum(3))>>,
      <<JSObj(<<>>), JSObj(<<>>)>>,
      <<JSStr("{\"type\":\"spektrix:navigated\",\"path\":\"/tickets/events\"}"), Nav(OrdinaryPath)>>,
      <<JSStr("{\"spektrixOffset\": 1.5}"), Flow(JSNum(3))>>,
      <<JSStr("{}"), JSObj(<<>>)>>,
      <<JSStr(" {\"a\": {\"b\": [1, \"x\"]}, \"c\": null} "),
        JSObj([a |-> JSObj([b |-> JSArr(<<JSNum(2), JSStr("x")>>)]), c |-> Null])>>,
      <<JSNum(84), Null>>,
      <<JSNum(0), Null>>,
      <<NaN, Null>>,
      <<JSBool(TRUE), Null>>,
      <<JSBool(FALSE), Null>>,
      <<JSArr(<<>>), Null>>,
      <<JSArr(<<JSNum(2)>>), Null>>,
      <<Null, Null>>,
      <<Undefined, Null>>,
      <<JSStr("not json"), Null>>,
      <<JSStr(""), Null>>,
      <<JSStr("{\"a\":1,}"), Null>>,
      <<JSStr("{\"a\":1} x"), Null>>,
      <<JSStr("42"), Null>>,
      <<JSStr("true"), Null>>,
      <<JSStr("null"), Null>>,
      <<JSStr("\"text\""), Null>>,
      <<JSStr("[1]"), Null>> }

AllOrigins == ProbeOrigins \cup {m.origin : m \in Messages \cup MultiMessages}

\* URLHostname and JSON.parse are computed once for each text of the model
HostnameOf == [origin \in AllOrigins |-> URLHostname(origin)]

Texts == {d.v : d \in {p \in Payloads \cup {pair[1] : pair \in ProbeData} : p.t = "string"}}

ParsedText == [text \in Texts |-> JSONParse(text)]

(***************************************************************************)
(* isAllowedOrigin                                                         *)
(***************************************************************************)
TrustedSuffix == ".spektrix.com"

\* `domain && hostname === domain` with the suffix test left out
IsAllowedOriginNoSuffix(origin, domain) ==
    With(HostnameOf[origin], LAMBDA hostname :
        IF hostname = Throws THEN JSBool(FALSE)
        ELSE IF ~ToBoolean(domain) THEN domain
        ELSE JSBool(StrictEquals(hostname, domain)))

\* the suffix test written without its leading dot
IsAllowedOriginLooseSuffix(origin, domain) ==
    With(HostnameOf[origin], LAMBDA hostname :
        IF hostname = Throws THEN JSBool(FALSE)
        ELSE IF EndsWith(hostname.v, "spektrix.com") THEN JSBool(TRUE)
        ELSE IF ~ToBoolean(domain) THEN domain
        ELSE JSBool(StrictEquals(hostname, domain)))

\* isAllowedOrigin(origin, domain): what the function returns.  The last line
\* is `domain && hostname === domain`: a falsy domain is returned as it is.
isAllowedOrigin(origin, domain) ==
    With(HostnameOf[origin], LAMBDA hostname :
        IF hostname = Throws THEN JSBool(FALSE)
        ELSE IF EndsWith(hostname.v, TrustedSuffix) THEN JSBool(TRUE)
        ELSE IF ~ToBoolean(domain) THEN domain
        ELSE JSBool(StrictEquals(hostname, domain)))

(***************************************************************************)
(* coerceMessageData                                                       *)
(***************************************************************************)
\* coerceMessageData without the JSON.parse of a string
CoerceObjectsOnly(data) ==
    IF ToBoolean(data) /\ TypeOf(data) = "object" THEN data ELSE Null

coerceMessageData(data) ==
    IF ToBoolean(data) /\ TypeOf(data) = "object" THEN data
    ELSE IF TypeOf(data) # "string" THEN Null
    ELSE With(ParsedText[data.v], LAMBDA parsed :
            IF parsed = Throws THEN Null
            ELSE IF ToBoolean(parsed) /\ TypeOf(parsed) = "object" THEN parsed
            ELSE Null)

(***************************************************************************)
(* Options                                                                 *)
(***************************************************************************)
defaultOptions ==
    [iframeId                 |-> JSStr("SpektrixIFrame"),
     domain                   |-> JSStr(""),
     navSelector              |-> JSStr(""),
     navHeight                |-> Null,
     scrollBehavior           |-> JSStr("auto"),
     navigateScrollTarget     |-> JSStr("page"),
     expressCheckoutAllowlist |-> JSArr(<<JSStr("startcheckoutlogin"), JSStr("orderconfirmation")>>),
     debug                    |-> JSBool(FALSE)]

\* { ...defaults, ...user }: the user's own properties win, whatever they are called
Spread(defaults, user) ==
    [k \in (DOMAIN defaults) \cup (DOMAIN user) |->
        IF k \in DOMAIN user THEN user[k] ELSE defaults[k]]

\* { ...defaults, ...user } written the wrong way round
SpreadDefaultsLast(defaults, user) ==
    [k \in (DOMAIN defaults) \cup (DOMAIN user) |->
        IF k \in DOMAIN defaults THEN defaults[k] ELSE user[k]]

(***************************************************************************)
(* The document and the window                                             *)
(***************************************************************************)
DomFrameId     == "SpektrixIFrame"   \* the id of the iframe element the page holds
DomNavSelector == "#nav"             \* the selector the page's fixed bar matches

\* document.getElementById(id): <<top>> for the element, <<>> for null
getElementById(id, fr) == IF id = JSStr(DomFrameId) THEN fr ELSE <<>>

\* document.querySelector(selector): <<height>> for the element, <<>> for null
querySelector(selector, nv) == IF selector = JSStr(DomNavSelector) THEN nv ELSE <<>>

\* el.getBoundingClientRect().top: the element's top relative to the viewport
BoundingTop(el, y) == el[1] - y

\* getElementTop(el) with the scroll offset subtracted instead of added
GetElementTopViewport(el, y) == BoundingTop(el, y) - y

\* getElementTop(el)
getElementTop(el, y) == BoundingTop(el, y) + y

Max(a, b) == IF a >= b THEN a ELSE b
Min(a, b) == IF a <= b THEN a ELSE b

\* Math.round(x): the nearest whole pixel, a half rounding up (x in half pixels)
MathRound(x) == 2 * ((x + 1) \div 2)

(***************************************************************************)
(* getEffectiveNavHeight                                                   *)
(***************************************************************************)
\* What the page's navHeight callbacks do when called: the README's
\* `() => document.querySelector(...)?.offsetHeight + margin` (NaN when the
\* bar is missing), one that throws, and one that returns numeric text.
CallNavHeight(name, nv) ==
    CASE name = "headerPlusMargin" ->
            IF nv = <<>> THEN NaN ELSE JSNum(MathRound(nv[1]) + 2)
      [] name = "throwing" -> Throws
      [] name = "textual" -> JSStr("1.5")
      [] OTHER -> Undefined

\* getEffectiveNavHeight measuring the bar as it was when the instance was
\* created (2px high), not as it is
GetEffectiveNavHeightCached(options, nv) ==
    IF TypeOf(options.navHeight) = "function"
    THEN With(CallNavHeight(options.navHeight.v, <<4>>), LAMBDA returned :
         With(IF returned = Throws THEN NaN ELSE ToNumber(returned), LAMBDA value :
            [value   |-> IF NumberIsFinite(value) THEN value.v ELSE 0,
             calls   |-> 1,
             queries |-> 0]))
    ELSE IF NumberIsFinite(options.navHeight)
    THEN [value |-> options.navHeight.v, calls |-> 0, queries |-> 0]
    ELSE IF ToBoolean(options.navSelector)
    THEN With(querySelector(options.navSelector, <<4>>), LAMBDA el :
            [value   |-> IF el # <<>> THEN el[1] ELSE 0,
             calls   |-> 0,
             queries |-> 1])
    ELSE [value |-> 0, calls |-> 0, queries |-> 0]

\* getEffectiveNavHeight with the selector consulted before a fixed number
GetEffectiveNavHeightSelectorFirst(options, nv) ==
    IF TypeOf(options.navHeight) = "function"
    THEN With(CallNavHeight(options.navHeight.v, nv), LAMBDA returned :
         With(IF returned = Throws THEN NaN ELSE ToNumber(returned), LAMBDA value :
            [value   |-> IF NumberIsFinite(value) THEN value.v ELSE 0,
             calls   |-> 1,
             queries |-> 0]))
    ELSE IF ToBoolean(options.navSelector) /\ querySelector(options.navSelector, nv) # <<>>
    THEN [value |-> querySelector(options.navSelector, nv)[1], calls |-> 0, queries |-> 1]
    ELSE IF NumberIsFinite(options.navHeight)
    THEN [value |-> options.navHeight.v, calls |-> 0, queries |-> 0]
    ELSE [value |-> 0, calls |-> 0, queries |-> 0]

\* [value: the height, calls: callback invocations, queries: querySelector calls]
getEffectiveNavHeight(options, nv) ==
    IF TypeOf(options.navHeight) = "function"
    THEN With(CallNavHeight(options.navHeight.v, nv), LAMBDA returned :
         With(IF returned = Throws THEN NaN ELSE ToNumber(returned), LAMBDA value :
            [value   |-> IF NumberIsFinite(value) THEN value.v ELSE 0,
             calls   |-> 1,
             queries |-> 0]))
    ELSE IF NumberIsFinite(options.navHeight)
    THEN [value |-> options.navHeight.v, calls |-> 0, queries |-> 0]
    ELSE IF ToBoolean(options.navSelector)
    THEN With(querySelector(options.navSelector, nv), LAMBDA el :
            [value   |-> IF el # <<>> THEN el[1] ELSE 0,
             calls   |-> 0,
             queries |-> 1])
    ELSE [value |-> 0, calls |-> 0, queries |-> 0]

(***************************************************************************)
(* shouldJumpAfterNavigation, computeScrollTarget                          *)
(***************************************************************************)
CheckoutMarker == "secure/checkout/v2/"

\* the allowlist consulted for every path, also outside the checkout
ShouldJumpAllowlistOnly(path, allowlist) ==
    LET list == IF allowlist.t = "array" THEN allowlist.v ELSE <<>>
    IN  \E i \in 1..Len(list) :
            /\ TypeOf(list[i]) = "string"
            /\ Len(list[i].v) > 0
            /\ EndsWith(path, list[i].v)

\* the suffix matched anywhere in the path instead of at its end
ShouldJumpSuffixAnywhere(path, allowlist) ==
    LET list == IF allowlist.t = "array" THEN allowlist.v ELSE <<>>
    IN  IF ~Includes(path, CheckoutMarker) THEN TRUE
        ELSE \E i \in 1..Len(list) :
                /\ TypeOf(list[i]) = "string"
                /\ Len(list[i].v) > 0
                /\ Includes(path, list[i].v)

shouldJumpAfterNavigation(path, allowlist) ==
    LET list == IF allowlist.t = "array" THEN allowlist.v ELSE <<>>
    IN  IF ~Includes(path, CheckoutMarker) THEN TRUE
        ELSE IF Len(list) = 0 THEN FALSE
        ELSE \E i \in 1..Len(list) :
                /\ TypeOf(list[i]) = "string"
                /\ Len(list[i].v) > 0
                /\ EndsWith(path, list[i].v)

\* the target rounded but not clamped at 0
ComputeScrollTargetUnclamped(base, navHeight, extraOffset) ==
    MathRound(base + extraOffset - navHeight)

\* the target clamped but not rounded
ComputeScrollTargetUnrounded(base, navHeight, extraOffset) ==
    Max(0, base + extraOffset - navHeight)

\* the nav height added instead of subtracted
ComputeScrollTargetPlusNav(base, navHeight, extraOffset) ==
    MathRound(Max(0, base + extraOffset + navHeight))

computeScrollTarget(base, navHeight, extraOffset) ==
    LET rawTarget == base + extraOffset - navHeight
    IN  MathRound(Max(0, rawTarget))

(***************************************************************************)
(* scrollTo, debugLog                                                      *)
(***************************************************************************)
\* the calls of window.scrollTo that scrollTo(options, targetTop, force) makes
\* when window.scrollY is y: `<=` in place of `<`
ScrollToOrEqual(options, targetTop, force, y) ==
    IF force \/ targetTop <= y
    THEN <<[top |-> targetTop, left |-> 0, behavior |-> options.scrollBehavior]>>
    ELSE <<>>

\* the force argument ignored
ScrollToNeverForced(options, targetTop, force, y) ==
    IF targetTop < y
    THEN <<[top |-> targetTop, left |-> 0, behavior |-> options.scrollBehavior]>>
    ELSE <<>>

\* the comparison dropped: every call scrolls
ScrollToAlways(options, targetTop, force, y) ==
    <<[top |-> targetTop, left |-> 0, behavior |-> options.scrollBehavior]>>

\* scrollTo scrolling whenever debug is on
ScrollToDebugForces(options, targetTop, force, y) ==
    IF force \/ ToBoolean(options.debug) \/ targetTop < y
    THEN <<[top |-> targetTop, left |-> 0, behavior |-> options.scrollBehavior]>>
    ELSE <<>>

scrollTo(options, targetTop, force, y) ==
    IF force \/ targetTop < y
    THEN <<[top |-> targetTop, left |-> 0, behavior |-> options.scrollBehavior]>>
    ELSE <<>>

\* the lines debugLog(options, reason) writes to the console
debugLog(options, reason) ==
    IF ~ToBoolean(options.debug) THEN <<>> ELSE <<reason>>

CancelledReason == "Scrolling cancelled - the user is already higher up the page."

(***************************************************************************)
(* onMessage: one listener's handling of one event.  The result records    *)
(* where the handler returned (stage), what it read and what it called.    *)
(***************************************************************************)
Run(id, allowed, stage, kind, lookups, nav, seenY, targets, force, calls, log) ==
    [inst      |-> id,
     allowed   |-> allowed,     \* what isAllowedOrigin returned
     stage     |-> stage,       \* "origin", "data", "frame", "policy", "offset" or "scroll"
     kind      |-> kind,        \* "none", "navigation" or "flow"
     lookups   |-> lookups,     \* calls of document.getElementById
     navCalls  |-> nav.calls,   \* calls of the navHeight callback
     queries   |-> nav.queries, \* calls of document.querySelector
     navHeight |-> nav.value,   \* the height getEffectiveNavHeight returned
     seenY     |-> seenY,       \* window.scrollY as the handler found it
     targets   |-> targets,     \* <<finalTarget>> when one was computed
     force     |-> force,       \* the force argument given to scrollTo
     calls     |-> calls,       \* the calls of window.scrollTo
     log       |-> log]         \* the console lines

NoNav == [value |-> 0, calls |-> 0, queries |-> 0]

\* the console lines of a scroll decision
ScrollLog(options, reason, calls) ==
    debugLog(options, reason)
        \o (IF calls = <<>> THEN debugLog(options, CancelledReason) ELSE <<>>)

\* the navigation branch, reached with the iframe element and the nav height
NavigationBranch(id, options, allowed, data, nav, y, iframe) ==
    With(IF TypeOf(Get(data, "path")) = "string" THEN Get(data, "path").v ELSE "", LAMBDA path :
        IF path # "" /\ shouldJumpAfterNavigation(path, options.expressCheckoutAllowlist)
        THEN With(IF options.navigateScrollTarget = JSStr("page")
                  THEN 0 ELSE getElementTop(iframe, y), LAMBDA baseTarget :
             With(computeScrollTarget(baseTarget, nav.value, 0), LAMBDA finalTarget :
             With(scrollTo(options, finalTarget, FALSE, y), LAMBDA calls :
                Run(id, allowed, "scroll", "navigation", 1, nav, y, <<finalTarget>>, FALSE,
                    calls, ScrollLog(options, "navigation message", calls)))))
        ELSE Run(id, allowed, "policy", "navigation", 1, nav, y, <<>>, FALSE, <<>>, <<>>))

\* the flow branch with force left at its default
FlowBranchUnforced(id, options, allowed, data, nav, y, iframe) ==
    With(ToNumber(Get(data, "spektrixOffset")), LAMBDA requestedOffset :
        IF NumberIsFinite(requestedOffset) /\ requestedOffset.v > 0
        THEN With(getElementTop(iframe, y), LAMBDA baseTarget :
             With(computeScrollTarget(baseTarget, nav.value, requestedOffset.v), LAMBDA finalTarget :
             With(scrollTo(options, finalTarget, FALSE, y), LAMBDA calls :
                Run(id, allowed, "scroll", "flow", 1, nav, y, <<finalTarget>>, FALSE,
                    calls, ScrollLog(options, "flow scroll message", calls)))))
        ELSE Run(id, allowed, "offset", "none", 1, nav, y, <<>>, FALSE, <<>>, <<>>))

\* the flow branch acting on an offset of 0 too
FlowBranchNonNegative(id, options, allowed, data, nav, y, iframe) ==
    With(ToNumber(Get(data, "spektrixOffset")), LAMBDA requestedOffset :
        IF NumberIsFinite(requestedOffset) /\ requestedOffset.v >= 0
        THEN With(getElementTop(iframe, y), LAMBDA baseTarget :
             With(computeScrollTarget(baseTarget, nav.value, requestedOffset.v), LAMBDA finalTarget :
             With(scrollTo(options, finalTarget, TRUE, y), LAMBDA calls :
                Run(id, allowed, "scroll", "flow", 1, nav, y, <<finalTarget>>, TRUE,
                    calls, ScrollLog(options, "flow scroll message", calls)))))
        ELSE Run(id, allowed, "offset", "none", 1, nav, y, <<>>, FALSE, <<>>, <<>>))

\* the else branch: a flow scroll message, or nothing this script knows
FlowBranch(id, options, allowed, data, nav, y, iframe) ==
    With(ToNumber(Get(data, "spektrixOffset")), LAMBDA requestedOffset :
        IF NumberIsFinite(requestedOffset) /\ requestedOffset.v > 0
        THEN With(getElementTop(iframe, y), LAMBDA baseTarget :
             With(computeScrollTarget(baseTarget, nav.value, requestedOffset.v), LAMBDA finalTarget :
             With(scrollTo(options, finalTarget, TRUE, y), LAMBDA calls :
                Run(id, allowed, "scroll", "flow", 1, nav, y, <<finalTarget>>, TRUE,
                    calls, ScrollLog(options, "flow scroll message", calls)))))
        ELSE Run(id, allowed, "offset", "none", 1, nav, y, <<>>, FALSE, <<>>, <<>>))

\* onMessage with the navHeight callback called outside a try: its exception
\* ends the handler
OnMessageCallbackUncaught(id, options, ev, y, fr, nv) ==
    With(isAllowedOrigin(ev.origin, options.domain), LAMBDA allowed :
        IF ~ToBoolean(allowed)
        THEN Run(id, allowed, "origin", "none", 0, NoNav, y, <<>>, FALSE, <<>>, <<>>)
        ELSE
    With(coerceMessageData(ev.data), LAMBDA data :
        IF ~ToBoolean(data)
        THEN Run(id, allowed, "data", "none", 0, NoNav, y, <<>>, FALSE, <<>>, <<>>)
        ELSE
    With(getElementById(options.iframeId, fr), LAMBDA iframe :
        IF iframe = <<>>
        THEN Run(id, allowed, "frame", "none", 1, NoNav, y, <<>>, FALSE, <<>>, <<>>)
        ELSE IF TypeOf(options.navHeight) = "function"
                /\ CallNavHeight(options.navHeight.v, nv) = Throws
        THEN Run(id, allowed, "exception", "none", 1, [value |-> 0, calls |-> 1, queries |-> 0],
                 y, <<>>, FALSE, <<>>, <<>>)
        ELSE
    With(getEffectiveNavHeight(options, nv), LAMBDA nav :
        IF StrictEquals(Get(data, "type"), JSStr("spektrix:navigated"))
        THEN NavigationBranch(id, options, allowed, data, nav, y, iframe)
        ELSE FlowBranch(id, options, allowed, data, nav, y, iframe)))))

onMessage(id, options, ev, y, fr, nv) ==
    With(isAllowedOrigin(ev.origin, options.domain), LAMBDA allowed :
        IF ~ToBoolean(allowed)
        THEN Run(id, allowed, "origin", "none", 0, NoNav, y, <<>>, FALSE, <<>>, <<>>)
        ELSE
    With(coerceMessageData(ev.data), LAMBDA data :
        IF ~ToBoolean(data)
        THEN Run(id, allowed, "data", "none", 0, NoNav, y, <<>>, FALSE, <<>>, <<>>)
        ELSE
    With(getElementById(options.iframeId, fr), LAMBDA iframe :
        IF iframe = <<>>
        THEN Run(id, allowed, "frame", "none", 1, NoNav, y, <<>>, FALSE, <<>>, <<>>)
        ELSE
    With(getEffectiveNavHeight(options, nv), LAMBDA nav :
        IF StrictEquals(Get(data, "type"), JSStr("spektrix:navigated"))
        THEN NavigationBranch(id, options, allowed, data, nav, y, iframe)
        ELSE FlowBranch(id, options, allowed, data, nav, y, iframe)))))

(***************************************************************************)
(* The window: scrolling, and the dispatch of an event to its listeners    *)
(***************************************************************************)
MaxScroll == 5   \* the document's scroll range: window.scrollY is in 0..MaxScroll

ClampScroll(top) == Min(Max(top, 0), MaxScroll)

\* window.scrollTo({top, left, behavior}) at offset y with animation an:
\* "smooth" starts an animation towards the clamped top, anything else jumps
\* there and ends the animation in progress
WindowScrollTo(call, y, an) ==
    IF call.behavior = JSStr("smooth")
    THEN [y |-> y, anim |-> IF ClampScroll(call.top) = y THEN <<>> ELSE <<ClampScroll(call.top)>>]
    ELSE [y |-> ClampScroll(call.top), anim |-> <<>>]

\* the window after listener ls[k] has handled ev, from the window w before it;
\* the listener's run is kept with the scroll offset it left behind (leftY)
AfterListener(ls, k, ev, w) ==
    With(onMessage(ls[k], instances[ls[k]].options, ev, w.y, frameTop, navEl), LAMBDA r :
    With(IF r.calls = <<>> THEN [y |-> w.y, anim |-> w.anim]
         ELSE WindowScrollTo(r.calls[1], w.y, w.anim), LAMBDA moved :
        [y    |-> moved.y,
         anim |-> moved.anim,
         runs |-> Append(w.runs, r @@ [leftY |-> moved.y])]))

\* the listeners run one after the other, each to completion, each finding
\* the window as the one before left it
DispatchEvent(ls, ev, y, an) ==
    LET after[k \in 0..Len(ls)] ==
            IF k = 0 THEN [y |-> y, anim |-> an, runs |-> <<>>]
            ELSE AfterListener(ls, k, ev, after[k - 1])
    IN  after[Len(ls)]

\* removeEventListener removing every listener
RemoveAllListeners(ls, id) == <<>>

\* removeEventListener given a function that was never added
RemoveNoListener(ls, id) == ls

\* window.removeEventListener("message", onMessage) for the closure of instance id
removeEventListener(ls, id) == SelectSeq(ls, LAMBDA l : l # id)

\* window.addEventListener("message", onMessage)
addEventListener(ls, id) == IF \E i \in 1..Len(ls) : ls[i] = id THEN ls ELSE Append(ls, id)

(***************************************************************************)
(* The inputs: options given to init, layouts of the page, messages        *)
(***************************************************************************)
MaxInstances == 2   \* calls of initModernFlowScroll in one page (SpecMulti)

\* userOptions, as given to initModernFlowScroll
UserOptions ==
    { <<>>,
      [domain |-> JSStr(CustomDomain), navigateScrollTarget |-> JSStr("iframe")],
      [navigateScrollTarget |-> JSStr("iframe"), navHeight |-> JSNum(0 - 2)],
      [navigateScrollTarget |-> JSStr("iframe"), navHeight |-> JSNum(40)],
      [navigateScrollTarget |-> JSStr("iframe"), navHeight |-> JSNum(1), navSelector |-> JSStr(DomNavSelector)],
      [navigateScrollTarget |-> JSStr("iframe"), navSelector |-> JSStr(DomNavSelector), debug |-> JSBool(TRUE)],
      [navigateScrollTarget |-> JSStr("iframe"), navSelector |-> JSStr(DomNavSelector)],
      [navigateScrollTarget |-> JSStr("iframe"), navHeight |-> JSFun("headerPlusMargin")],
      [navigateScrollTarget |-> JSStr("iframe"), navHeight |-> JSFun("throwing")],
      [navigateScrollTarget |-> JSStr("iframe"), alwaysScroll |-> JSBool(TRUE)],
      [navigateScrollTarget |-> JSStr("iframe"), scrollBehavior |-> JSStr("smooth")],
      [expressCheckoutAllowlist |-> JSArr(<<>>), domain |-> JSStr(CustomDomain)],
      [iframeId |-> JSStr("CheckoutFrame")] }

\* the page's iframe: missing, or with its top 1.5px down the document
FrameLayouts == {<<>>, <<3>>}

\* the page's fixed bar: missing, or 0.5px or 2px high
NavLayouts == {<<>>, <<1>>, <<4>>}

\* SpecMulti: fewer of each
MultiUserOptions ==
    { <<>>,
      [domain |-> JSStr(CustomDomain), navigateScrollTarget |-> JSStr("iframe")],
      [navigateScrollTarget |-> JSStr("iframe"), navHeight |-> JSNum(1)] }

NoProbe == [fn |-> "none", args |-> <<>>, result |-> <<>>]

(***************************************************************************)
(* Operations                                                              *)
(***************************************************************************)
\* initModernFlowScroll(userOptions)
initModernFlowScroll(users) ==
    /\ Len(instances) < MaxInstances
    /\ \E user \in users :
          instances' = Append(instances,
              [status |-> "active", options |-> Spread(defaultOptions, user)])
    /\ listeners' = addEventListener(listeners, Len(instances) + 1)
    /\ event' = <<>>
    /\ runs' = <<>>
    /\ UNCHANGED <<scrollY, frameTop, navEl, anim, probe>>

\* instance.destroy()
Destroy ==
    /\ \E id \in DOMAIN instances :
          /\ listeners' = removeEventListener(listeners, id)
          /\ instances' = [instances EXCEPT ![id].status = "destroyed"]
    /\ event' = <<>>
    /\ runs' = <<>>
    /\ UNCHANGED <<scrollY, frameTop, navEl, anim, probe>>

\* the window receives a message event and runs its listeners
Dispatch(messages) ==
    \E ev \in messages :
        \E done \in {DispatchEvent(listeners, ev, scrollY, anim)} :
            /\ scrollY' = done.y
            /\ anim' = done.anim
            /\ runs' = done.runs
            /\ event' = <<ev>>
            /\ UNCHANGED <<instances, listeners, frameTop, navEl, probe>>

\* the user scrolls the page, which ends a smooth scroll in progress
UserScroll ==
    /\ \E y \in 0..MaxScroll : y # scrollY /\ scrollY' = y
    /\ anim' = <<>>
    /\ event' = <<>>
    /\ runs' = <<>>
    /\ UNCHANGED <<instances, listeners, frameTop, navEl, probe>>

\* a smooth scroll moves half a pixel towards its target; the event it serves
\* stays the last one dispatched
AnimationStep ==
    /\ anim # <<>>
    /\ scrollY' = IF anim[1] > scrollY THEN scrollY + 1 ELSE scrollY - 1
    /\ anim' = IF scrollY' = anim[1] THEN <<>> ELSE anim
    /\ UNCHANGED <<instances, listeners, frameTop, navEl, event, runs, probe>>

\* the fixed bar is resized, removed or inserted
NavResize ==
    /\ \E h \in NavLayouts : h # navEl /\ navEl' = h
    /\ event' = <<>>
    /\ runs' = <<>>
    /\ UNCHANGED <<instances, listeners, scrollY, frameTop, anim, probe>>

\* the iframe moves, is removed or inserted
FrameMove ==
    /\ \E f \in FrameLayouts : f # frameTop /\ frameTop' = f
    /\ event' = <<>>
    /\ runs' = <<>>
    /\ UNCHANGED <<instances, listeners, scrollY, navEl, anim, probe>>

(***************************************************************************)
(* Spec: a page with one instance, every option set, every message         *)
(***************************************************************************)
Init ==
    /\ \E user \in UserOptions :
          instances = <<[status |-> "active", options |-> Spread(defaultOptions, user)]>>
    /\ listeners = addEventListener(<<>>, 1)
    /\ scrollY = 0
    /\ frameTop = <<3>>
    /\ navEl = <<4>>
    /\ anim = <<>>
    /\ event = <<>>
    /\ runs = <<>>
    /\ probe = NoProbe

Next ==
    \/ Dispatch(Messages)
    \/ Destroy
    \/ UserScroll
    \/ AnimationStep
    \/ NavResize
    \/ FrameMove

Spec == Init /\ [][Next]_vars

(***************************************************************************)
(* SpecMulti: a page where init is called up to MaxInstances times         *)
(***************************************************************************)
InitMulti ==
    /\ instances = <<>>
    /\ listeners = <<>>
    /\ scrollY = 0
    /\ frameTop = <<3>>
    /\ navEl = <<4>>
    /\ anim = <<>>
    /\ event = <<>>
    /\ runs = <<>>
    /\ probe = NoProbe

NextMulti ==
    \/ initModernFlowScroll(MultiUserOptions)
    \/ Dispatch(MultiMessages)
    \/ Destroy
    \/ UserScroll
    \/ FrameMove

SpecMulti == InitMulti /\ [][NextMulti]_vars

(***************************************************************************)
(* SpecPure: isAllowedOrigin and shouldJumpAfterNavigation called alone    *)
(***************************************************************************)
ProbeDomains ==
    {JSStr(""), JSStr(CustomDomain), JSStr("Tickets.Example.org"), JSStr("spektrix.com")}

ProbePaths ==
    { OrdinaryPath,
      AllowedCheckoutPath,
      OtherCheckoutPath,
      "/orderconfirmation",
      "/secure/checkout/v2/",
      "secure/checkout/v2/startcheckoutlogin",
      "/secure/checkout/v2/orderconfirmation/receipt",
      "/secure/checkout/basket" }

ProbeAllowlists ==
    { defaultOptions.expressCheckoutAllowlist,
      JSArr(<<>>),
      JSArr(<<JSStr("")>>),
      JSArr(<<JSStr("payment")>>),
      JSArr(<<JSNum(2), JSStr("receipt")>>),
      JSStr("orderconfirmation"),
      Null }

\* options given to getEffectiveNavHeight alone
ProbeNavHeights ==
    { Null, JSNum(0), JSNum(0 - 2), JSNum(40), NaN, PosInf,
      JSFun("headerPlusMargin"), JSFun("throwing"), JSFun("textual") }

ProbeNavSelectors == {JSStr(""), JSStr(DomNavSelector), JSStr("#missing")}

InitPure ==
    /\ instances = <<>>
    /\ listeners = <<>>
    /\ scrollY = 0
    /\ frameTop = <<>>
    /\ navEl = <<>>
    /\ anim = <<>>
    /\ event = <<>>
    /\ runs = <<>>
    /\ \/ \E origin \in ProbeOrigins, domain \in ProbeDomains :
             probe = [fn |-> "isAllowedOrigin", args |-> <<JSStr(origin), domain>>, result |-> <<>>]
       \/ \E path \in ProbePaths, allowlist \in ProbeAllowlists :
             probe = [fn |-> "shouldJumpAfterNavigation", args |-> <<JSStr(path), allowlist>>,
                      result |-> <<>>]
       \/ \E height \in ProbeNavHeights, selector \in ProbeNavSelectors, nv \in NavLayouts :
             probe = [fn |-> "getEffectiveNavHeight",
                      args |-> <<Spread(defaultOptions, [navHeight |-> height, navSelector |-> selector]), nv>>,
                      result |-> <<>>]
       \/ \E pair \in ProbeData :
             probe = [fn |-> "coerceMessageData", args |-> <<pair[1]>>, result |-> <<>>]

CallIsAllowedOrigin ==
    /\ probe.fn = "isAllowedOrigin"
    /\ probe.result = <<>>
    /\ probe' = [probe EXCEPT !.result = <<isAllowedOrigin(probe.args[1].v, probe.args[2])>>]
    /\ UNCHANGED <<instances, listeners, scrollY, frameTop, navEl, anim, event, runs>>

CallShouldJump ==
    /\ probe.fn = "shouldJumpAfterNavigation"
    /\ probe.result = <<>>
    /\ probe' = [probe EXCEPT
                    !.result = <<JSBool(shouldJumpAfterNavigation(probe.args[1].v, probe.args[2]))>>]
    /\ UNCHANGED <<instances, listeners, scrollY, frameTop, navEl, anim, event, runs>>

CallCoerceMessageData ==
    /\ probe.fn = "coerceMessageData"
    /\ probe.result = <<>>
    /\ probe' = [probe EXCEPT !.result = <<coerceMessageData(probe.args[1])>>]
    /\ UNCHANGED <<instances, listeners, scrollY, frameTop, navEl, anim, event, runs>>

CallGetEffectiveNavHeight ==
    /\ probe.fn = "getEffectiveNavHeight"
    /\ probe.result = <<>>
    /\ probe' = [probe EXCEPT !.result = <<getEffectiveNavHeight(probe.args[1], probe.args[2])>>]
    /\ UNCHANGED <<instances, listeners, scrollY, frameTop, navEl, anim, event, runs>>

NextPure ==
    \/ CallIsAllowedOrigin
    \/ CallShouldJump
    \/ CallCoerceMessageData
    \/ CallGetEffectiveNavHeight

SpecPure == InitPure /\ [][NextPure]_vars

(***************************************************************************)
(* Properties                                                              *)
(***************************************************************************)
NavigatedType == JSStr("spektrix:navigated")

\* the options instance id was given
OptionsOf(id) == instances[id].options

\* the payload of the event as the handler reads it
EventData == coerceMessageData(event[1].data)

\* the origin is not trusted: it does not parse as a URL, or its hostname
\* neither ends with ".spektrix.com" nor equals the non-empty configured domain
UntrustedOrigin(origin, domain) ==
    \/ HostnameOf[origin] = Throws
    \/ /\ ~EndsWith(HostnameOf[origin].v, ".spektrix.com")
       /\ ~(domain.t = "string" /\ domain.v # "" /\ HostnameOf[origin].v = domain.v)

\* C1: a listener that is handed a message from an origin that is not trusted
\* looks up no frame, calls no navHeight callback, queries no selector,
\* computes no target, makes no window scroll call and leaves the scroll
\* offset as it found it.
TheoremC1 ==
    event # <<>> =>
        \A k \in 1..Len(runs) :
            UntrustedOrigin(event[1].origin, OptionsOf(runs[k].inst).domain) =>
                /\ runs[k].stage = "origin"
                /\ runs[k].lookups = 0
                /\ runs[k].navCalls = 0
                /\ runs[k].queries = 0
                /\ runs[k].targets = <<>>
                /\ runs[k].calls = <<>>
                /\ runs[k].leftY = runs[k].seenY

\* an untrusted origin carried a well-formed flow message to a page whose
\* frame is present and whose instance has a navHeight callback
WitnessC1 ==
    /\ event # <<>>
    /\ Len(runs) = 1
    /\ UntrustedOrigin(event[1].origin, OptionsOf(1).domain)
    /\ event[1].origin = "https://evilspektrix.com"
    /\ event[1].data = Flow(JSNum(2))
    /\ TypeOf(OptionsOf(1).navHeight) = "function"
    /\ frameTop # <<>>
    /\ runs[1].calls = <<>>

\* C2: once destroy() has been called on an instance, no dispatch of any
\* message has that instance make a window scroll call (it is not run at all).
TheoremC2 ==
    \A id \in DOMAIN instances :
        instances[id].status = "destroyed" =>
            \A k \in 1..Len(runs) : runs[k].inst # id

\* a trusted flow message is dispatched after destroy(), with the frame
\* present: the message that would have scrolled the page
WitnessC2 ==
    /\ Len(instances) = 1
    /\ instances[1].status = "destroyed"
    /\ OptionsOf(1).iframeId = JSStr(DomFrameId)
    /\ event # <<>>
    /\ event[1] = [origin |-> "https://system.spektrix.com", data |-> Flow(JSNum(2))]
    /\ frameTop # <<>>
    /\ runs = <<>>

\* the event is a navigation message: its payload has type "spektrix:navigated"
NavigationMessage == StrictEquals(Get(EventData, "type"), NavigatedType)

\* C3: a navigation message is applied with force = false: the window scroll
\* call is made exactly when the computed target is strictly less than the
\* scroll offset the handler finds, it goes to that target, and the handling
\* never leaves the scroll offset greater than it found it.
TheoremC3 ==
    (event # <<>> /\ NavigationMessage) =>
        \A k \in 1..Len(runs) :
            /\ runs[k].force = FALSE
            /\ runs[k].targets = <<>> => runs[k].calls = <<>>
            /\ runs[k].targets # <<>> =>
                  /\ (runs[k].calls # <<>>) <=> (runs[k].targets[1] < runs[k].seenY)
                  /\ runs[k].calls # <<>> => runs[k].calls[1].top = runs[k].targets[1]
            /\ runs[k].leftY <= runs[k].seenY

\* a navigation message moved the page up, to a target under the scroll offset
WitnessC3 ==
    /\ event # <<>>
    /\ NavigationMessage
    /\ Len(runs) = 1
    /\ runs[1].calls # <<>>
    /\ runs[1].targets[1] < runs[1].seenY
    /\ runs[1].leftY < runs[1].seenY

\* the message is trusted, its payload is an object and the frame is present:
\* the handler of instance id reaches its two branches
ReachesBranches(id) ==
    /\ ~UntrustedOrigin(event[1].origin, OptionsOf(id).domain)
    /\ ToBoolean(EventData)
    /\ getElementById(OptionsOf(id).iframeId, frameTop) # <<>>

\* the payload is a navigation event: type "spektrix:navigated", path a
\* non-empty string
NavigationEvent ==
    /\ StrictEquals(Get(EventData, "type"), NavigatedType)
    /\ TypeOf(Get(EventData, "path")) = "string"
    /\ Get(EventData, "path").v # ""

\* the payload carries a numeric, finite, strictly positive spektrixOffset
PositiveOffset ==
    /\ TypeOf(Get(EventData, "spektrixOffset")) = "number"
    /\ NumberIsFinite(Get(EventData, "spektrixOffset"))
    /\ Get(EventData, "spektrixOffset").v > 0

\* the one forced scroll call a flow offset asks of instance id:
\* top = max(0, round(frameTop + offset - obstructionHeight))
FlowCall(id) ==
    [top      |-> Max(0, MathRound(frameTop[1] + Get(EventData, "spektrixOffset").v
                                     - getEffectiveNavHeight(OptionsOf(id), navEl).value)),
     left     |-> 0,
     behavior |-> OptionsOf(id).scrollBehavior]

\* C4: for a trusted message carrying a finite, strictly positive offset that
\* is not a navigation event, with the frame present, the handler makes
\* exactly one window scroll call, forced, with
\* top = max(0, round(frameTop + offset - obstructionHeight)), whatever the
\* scroll offset is.
ClaimC4 ==
    event # <<>> =>
        \A k \in 1..Len(runs) :
            (ReachesBranches(runs[k].inst) /\ PositiveOffset /\ ~NavigationEvent) =>
                /\ runs[k].calls = <<FlowCall(runs[k].inst)>>
                /\ runs[k].force

\* what holds of the code: the same, for the payloads whose type is not
\* "spektrix:navigated"
FlowMessagesForced ==
    event # <<>> =>
        \A k \in 1..Len(runs) :
            (ReachesBranches(runs[k].inst) /\ PositiveOffset /\ ~NavigationMessage) =>
                /\ runs[k].calls = <<FlowCall(runs[k].inst)>>
                /\ runs[k].force

\* a flow offset moved the page down, to a target under the fold
FlowMovedDown ==
    /\ event # <<>>
    /\ Len(runs) = 1
    /\ ~NavigationMessage
    /\ runs[1].calls # <<>>
    /\ runs[1].calls[1].top > runs[1].seenY
    /\ runs[1].leftY > runs[1].seenY

\* path ends with suffix: some prefix of path followed by suffix is path
PathEndsWith(path, suffix) ==
    \E n \in 0..Len(path) : Slice(path, 1, n) \o suffix = path

\* the entries of an allowlist (none when it is not an array)
EntriesOf(allowlist) ==
    IF allowlist.t = "array" THEN {allowlist.v[i] : i \in 1..Len(allowlist.v)} ELSE {}

\* C5 as stated: the jump is allowed for every path that does not contain
\* "secure/checkout/v2/"; for a path that contains it, exactly when the path
\* ends with one of the allowlist's entries (never with an empty allowlist).
ClaimC5 ==
    (probe.fn = "shouldJumpAfterNavigation" /\ probe.result # <<>>) =>
        probe.result[1] = JSBool(
            \/ ~Includes(probe.args[1].v, "secure/checkout/v2/")
            \/ \E e \in EntriesOf(probe.args[2]) :
                  TypeOf(e) = "string" /\ PathEndsWith(probe.args[1].v, e.v))

\* C5: the jump is allowed for every path that does not contain
\* "secure/checkout/v2/", whatever the allowlist; for a path that contains it,
\* exactly when the path ends with one of the allowlist's non-empty string
\* entries (never with an empty allowlist, or one that is not an array).
TheoremC5 ==
    (probe.fn = "shouldJumpAfterNavigation" /\ probe.result # <<>>) =>
        probe.result[1] = JSBool(
            \/ ~Includes(probe.args[1].v, "secure/checkout/v2/")
            \/ \E e \in EntriesOf(probe.args[2]) :
                  /\ TypeOf(e) = "string"
                  /\ e.v # ""
                  /\ PathEndsWith(probe.args[1].v, e.v))

\* a checkout path was asked about under an allowlist whose one entry is the
\* empty string, and the jump was refused
WitnessC5 ==
    /\ probe.fn = "shouldJumpAfterNavigation"
    /\ probe.args = <<JSStr(OtherCheckoutPath), JSArr(<<JSStr("")>>)>>
    /\ probe.result = <<JSBool(FALSE)>>

\* the raw target of a run: base + extra offset - obstruction height
RawTarget(r) ==
    (IF r.kind = "navigation" /\ OptionsOf(r.inst).navigateScrollTarget = JSStr("page")
     THEN 0 ELSE frameTop[1])
    + (IF r.kind = "flow" THEN ToNumber(Get(EventData, "spektrixOffset")).v ELSE 0)
    - getEffectiveNavHeight(OptionsOf(r.inst), navEl).value

\* C6: every target the handler computes and every window scroll call it
\* makes has a top that is a whole number of pixels, at least 0, and a raw
\* target under 0 becomes exactly 0.
TheoremC6 ==
    \A k \in 1..Len(runs) :
        /\ \A i \in 1..Len(runs[k].targets) :
              /\ runs[k].targets[i] >= 0
              /\ runs[k].targets[i] % 2 = 0
              /\ RawTarget(runs[k]) < 0 => runs[k].targets[i] = 0
        /\ \A i \in 1..Len(runs[k].calls) :
              /\ runs[k].calls[i].top >= 0
              /\ runs[k].calls[i].top % 2 = 0
              /\ RawTarget(runs[k]) < 0 => runs[k].calls[i].top = 0

\* a nav height larger than the frame's top plus the offset: the raw target
\* is under 0 and the window is scrolled to 0
WitnessC6 ==
    /\ event # <<>>
    /\ Len(runs) = 1
    /\ OptionsOf(1).navHeight = JSNum(40)
    /\ runs[1].kind = "flow"
    /\ RawTarget(runs[1]) < 0
    /\ runs[1].seenY > 0
    /\ runs[1].calls # <<>>
    /\ runs[1].calls[1].top = 0
    /\ runs[1].leftY = 0

\* the step is a second handling of the message handled last: the same event
\* is dispatched again, with the layout and the configuration as they were
SameMessageAgain ==
    /\ event # <<>>
    /\ event' = event
    /\ UNCHANGED <<instances, listeners, frameTop, navEl>>
    /\ \E done \in {DispatchEvent(listeners, event[1], scrollY, anim)} :
          /\ runs' = done.runs
          /\ scrollY' = done.y
          /\ anim' = done.anim

\* C7: when the navigation message handled last is handled again with layout
\* and configuration unchanged, every listener computes the target it
\* computed the first time, and a listener whose first handling scrolled the
\* window, which is now at that target, makes no window scroll call.
TheoremC7 ==
    [][(SameMessageAgain /\ NavigationMessage) =>
          /\ Len(runs') = Len(runs)
          /\ \A k \in 1..Len(runs) :
                /\ runs'[k].targets = runs[k].targets
                /\ (runs[k].calls # <<>> /\ scrollY = runs[k].targets[1]) =>
                      /\ runs'[k].calls = <<>>
                      /\ scrollY' = scrollY]_vars

\* the first handling of a navigation message has scrolled the window up to
\* its target, where the window now rests
WitnessC7 ==
    /\ event # <<>>
    /\ NavigationMessage
    /\ Len(runs) = 1
    /\ runs[1].calls # <<>>
    /\ runs[1].seenY > runs[1].targets[1]
    /\ scrollY = runs[1].targets[1]
    /\ anim = <<>>

\* C8: isAllowedOrigin returns the boolean true when the hostname ends with
\* ".spektrix.com"; otherwise true only when the configured domain is
\* non-empty and equal to the hostname; and the boolean false for every other
\* input, an origin that does not parse and an empty domain included.
ClaimC8 ==
    (probe.fn = "isAllowedOrigin" /\ probe.result # <<>>) =>
        probe.result[1] = JSBool(
            /\ HostnameOf[probe.args[1].v] # Throws
            /\ \/ PathEndsWith(HostnameOf[probe.args[1].v].v, ".spektrix.com")
               \/ /\ probe.args[2] # JSStr("")
                  /\ HostnameOf[probe.args[1].v] = probe.args[2])

\* what holds of the code: the value returned is truthy in exactly those cases
AllowedOriginTruthy ==
    (probe.fn = "isAllowedOrigin" /\ probe.result # <<>>) =>
        ToBoolean(probe.result[1]) <=>
            /\ HostnameOf[probe.args[1].v] # Throws
            /\ \/ PathEndsWith(HostnameOf[probe.args[1].v].v, ".spektrix.com")
               \/ /\ probe.args[2] # JSStr("")
                  /\ HostnameOf[probe.args[1].v] = probe.args[2]

\* C9: with the alwaysScroll option true, a navigation message that passes
\* the policy makes the window scroll call to its target, also when the
\* scroll offset is already at or above the target.
ClaimC9 ==
    event # <<>> =>
        \A k \in 1..Len(runs) :
            ( /\ "alwaysScroll" \in DOMAIN OptionsOf(runs[k].inst)
              /\ ToBoolean(OptionsOf(runs[k].inst).alwaysScroll)
              /\ runs[k].kind = "navigation"
              /\ runs[k].stage = "scroll" ) =>
                /\ runs[k].calls # <<>>
                /\ runs[k].calls[1].top = runs[k].targets[1]

\* the instances whose listener is subscribed
Subscribed(ls) == {ls[i] : i \in 1..Len(ls)}

\* the run of listener k is the one its instance makes alone, under its own
\* options, from the window as the listener before it left it
OwnRun(k) ==
    /\ runs[k].inst = listeners[k]
    /\ runs[k].seenY = (IF k = 1 THEN runs[k].seenY ELSE runs[k - 1].leftY)
    /\ \E r \in {onMessage(listeners[k], OptionsOf(listeners[k]), event[1],
                           runs[k].seenY, frameTop, navEl)} :
          /\ \A f \in DOMAIN r : runs[k][f] = r[f]
          /\ runs[k].leftY =
                (IF r.calls = <<>> \/ r.calls[1].behavior = JSStr("smooth")
                 THEN runs[k].seenY ELSE ClampScroll(r.calls[1].top))

\* C10: the subscribed listeners are those of the instances not destroyed, one
\* each, in the order of their init; every message is handled by each of them
\* under its own options; and a step (init, destroy or message) changes no
\* instance's options and no subscription but that of the instance destroyed
\* or created.
TheoremC10 ==
    /\ [](/\ Subscribed(listeners) = {id \in DOMAIN instances : instances[id].status = "active"}
          /\ \A i, j \in 1..Len(listeners) : i < j => listeners[i] < listeners[j]
          /\ event # <<>> =>
                /\ Len(runs) = Len(listeners)
                /\ \A k \in 1..Len(runs) : OwnRun(k))
    /\ [][\A id \in DOMAIN instances :
             /\ instances'[id].options = instances[id].options
             /\ instances'[id].status = instances[id].status =>
                   (id \in Subscribed(listeners') <=> id \in Subscribed(listeners))]_vars

\* the first of two instances is destroyed; the second, created with other
\* options, handles a message and scrolls the window
WitnessC10 ==
    /\ Len(instances) = 2
    /\ instances[1].status = "destroyed"
    /\ instances[2].status = "active"
    /\ OptionsOf(1) # OptionsOf(2)
    /\ event # <<>>
    /\ Len(runs) = 1
    /\ runs[1].inst = 2
    /\ runs[1].calls # <<>>
    /\ runs[1].leftY # runs[1].seenY

\* JSON texts written out by hand, each with the object it is the text of
SerializedPayloads ==
    { <<"{\"type\":\"spektrix:navigated\",\"path\":\"/tickets/events\"}", Nav(OrdinaryPath)>>,
      <<"{\"spektrixOffset\": 1.5}", Flow(JSNum(3))>> }

\* the run of listener k had the event carried payload data instead
RunWithData(k, data) ==
    onMessage(runs[k].inst, OptionsOf(runs[k].inst),
              [origin |-> event[1].origin, data |-> data], runs[k].seenY, frameTop, navEl)

\* run r made the calls of listener k's run, after the same classification
SameOutcome(k, r) ==
    /\ r.stage = runs[k].stage
    /\ r.kind = runs[k].kind
    /\ r.targets = runs[k].targets
    /\ r.force = runs[k].force
    /\ r.calls = runs[k].calls

\* C11: a message whose data is the JSON text of an object is handled as the
\* message whose data is that object (same stage reached, same kind, same
\* target, same scroll call or none); data that is text not parsing as JSON,
\* or a number, makes no scroll call and leaves the scroll offset alone.
TheoremC11 ==
    event # <<>> =>
        \A k \in 1..Len(runs) :
            /\ \A pair \in SerializedPayloads :
                  event[1].data = JSStr(pair[1]) => SameOutcome(k, RunWithData(k, pair[2]))
            /\ event[1].data \in {JSStr("not json"), JSStr("42"), JSNum(84)} =>
                  /\ runs[k].calls = <<>>
                  /\ runs[k].stage \in {"origin", "data"}
                  /\ runs[k].leftY = runs[k].seenY

\* the JSON text of a navigation message scrolled the window up
WitnessC11 ==
    /\ event # <<>>
    /\ event[1].data = JSStr("{\"type\":\"spektrix:navigated\",\"path\":\"/tickets/events\"}")
    /\ Len(runs) = 1
    /\ runs[1].kind = "navigation"
    /\ runs[1].calls # <<>>
    /\ runs[1].leftY < runs[1].seenY

\* the base of a navigation jump of instance id, the window at offset y: 0 for
\* "page"; for "iframe" the frame's top in the document, which is its
\* bounding top plus the scroll offset
NavigationBase(id, y) ==
    IF OptionsOf(id).navigateScrollTarget = JSStr("page") THEN 0
    ELSE (frameTop[1] - y) + y

\* C12: a navigation message that passes the policy gets the target
\* max(0, round(base - obstructionHeight)), base being 0 for
\* navigateScrollTarget "page" and the frame's document top for "iframe";
\* a spektrixOffset the payload may carry is not added.
TheoremC12 ==
    event # <<>> =>
        \A k \in 1..Len(runs) :
            (runs[k].kind = "navigation" /\ runs[k].stage = "scroll") =>
                /\ runs[k].targets =
                      <<Max(0, MathRound(NavigationBase(runs[k].inst, runs[k].seenY)
                            - getEffectiveNavHeight(OptionsOf(runs[k].inst), navEl).value))>>
                /\ \A i \in 1..Len(runs[k].calls) : runs[k].calls[i].top = runs[k].targets[1]

\* a navigation message that also carries an offset was given the frame's
\* top less the bar's height as its target, the window scrolled down the page
WitnessC12 ==
    /\ event # <<>>
    /\ NavigationMessage
    /\ "spektrixOffset" \in DOMAIN EventData.v
    /\ Len(runs) = 1
    /\ runs[1].kind = "navigation"
    /\ OptionsOf(1).navigateScrollTarget = JSStr("iframe")
    /\ OptionsOf(1).navSelector = JSStr(DomNavSelector)
    /\ navEl = <<1>>
    /\ runs[1].seenY = 5
    /\ runs[1].targets = <<2>>
    /\ runs[1].calls # <<>>

\* C13: a payload whose type is "spektrix:navigated" and whose path is a
\* non-empty string is handled as a navigation event; any other payload that
\* holds a numeric, finite, strictly positive spektrixOffset is handled as a
\* flow-offset event; every other payload is discarded.
ClaimC13 ==
    event # <<>> =>
        \A k \in 1..Len(runs) :
            ReachesBranches(runs[k].inst) =>
                IF NavigationEvent
                THEN runs[k].kind = "navigation" /\ ~runs[k].force
                ELSE IF PositiveOffset
                THEN runs[k].kind = "flow" /\ runs[k].targets # <<>> /\ runs[k].force
                ELSE runs[k].targets = <<>> /\ runs[k].calls = <<>>

\* what holds of the code: the type alone chooses the branch, and the else
\* branch takes Number(spektrixOffset), a numeric string included
ClassifiedByType ==
    event # <<>> =>
        \A k \in 1..Len(runs) :
            ReachesBranches(runs[k].inst) =>
                IF NavigationMessage
                THEN /\ runs[k].kind = "navigation"
                     /\ ~runs[k].force
                     /\ ~NavigationEvent => runs[k].targets = <<>>
                ELSE IF /\ NumberIsFinite(ToNumber(Get(EventData, "spektrixOffset")))
                        /\ ToNumber(Get(EventData, "spektrixOffset")).v > 0
                THEN runs[k].kind = "flow" /\ runs[k].targets # <<>> /\ runs[k].force
                ELSE runs[k].targets = <<>> /\ runs[k].calls = <<>>

\* C14: a payload that is not a navigation event and whose spektrixOffset is
\* absent, 0, negative, NaN or an infinity is discarded: no target is
\* computed, no window scroll call is made, the scroll offset stays.
TheoremC14 ==
    event # <<>> =>
        \A k \in 1..Len(runs) :
            ( /\ ToBoolean(EventData)
              /\ ~NavigationEvent
              /\ \/ Get(EventData, "spektrixOffset").t \in {"undefined", "NaN", "Infinity", "-Infinity"}
                 \/ /\ Get(EventData, "spektrixOffset").t = "number"
                    /\ Get(EventData, "spektrixOffset").v <= 0 ) =>
                /\ runs[k].targets = <<>>
                /\ runs[k].calls = <<>>
                /\ runs[k].leftY = runs[k].seenY

\* a trusted message with offset 0 reached the flow branch, the frame
\* present and the window scrolled down, and nothing moved
WitnessC14 ==
    /\ event # <<>>
    /\ event[1].data = Flow(JSNum(0))
    /\ Len(runs) = 1
    /\ runs[1].stage = "offset"
    /\ runs[1].seenY > 0
    /\ runs[1].calls = <<>>
    /\ scrollY = runs[1].seenY

\* C15: normalize(raw) returns raw for an object that is no array, the parsed
\* value for text that parses to such an object, and null for every other
\* input: a number, a boolean, an array, null, undefined, text that does not
\* parse and text that parses to something else.
ClaimC15 ==
    (probe.fn = "coerceMessageData" /\ probe.result # <<>>) =>
        \A pair \in ProbeData : probe.args[1] = pair[1] => probe.result[1] = pair[2]

\* what holds of the code: the same, but that an array, and the array a text
\* parses to, are returned as objects are
CoerceKeepsArrays ==
    (probe.fn = "coerceMessageData" /\ probe.result # <<>>) =>
        \A pair \in ProbeData :
            probe.args[1] = pair[1] =>
                probe.result[1] =
                    (IF pair[1].t = "array" THEN pair[1]
                     ELSE IF pair[1] = JSStr("[1]") THEN JSArr(<<JSNum(2)>>)
                     ELSE pair[2])

\* the height the first applicable rule gives: what a callable navHeight
\* returns, else a finite numeric navHeight as it is, else the rendered
\* height of the element a non-empty navSelector matches (0 when none), else 0
RuleHeight(options, nv) ==
    IF options.navHeight.t = "function"
    THEN (CASE options.navHeight.v = "headerPlusMargin" /\ nv # <<>> -> MathRound(nv[1]) + 2
            [] options.navHeight.v = "textual" -> 3
            [] OTHER -> 0)
    ELSE IF options.navHeight.t = "number" THEN options.navHeight.v
    ELSE IF options.navSelector # JSStr("")
    THEN (IF options.navSelector = JSStr("#nav") /\ nv # <<>> THEN nv[1] ELSE 0)
    ELSE 0

CallbackFails(id) ==
    /\ OptionsOf(id).navHeight.t = "function"
    /\ \E returned \in {CallNavHeight(OptionsOf(id).navHeight.v, navEl)} :
          \/ returned = Throws
          \/ ~NumberIsFinite(ToNumber(returned))

\* C17: when the navHeight callback throws or returns a non-finite value, the
\* handler has called it once, takes 0 as the height, ends at one of its
\* ordinary ends (policy refusal, offset refusal, scroll decision) and decides
\* as an instance with navHeight 0 does.
TheoremC17 ==
    event # <<>> =>
        \A k \in 1..Len(runs) :
            (CallbackFails(runs[k].inst) /\ ReachesBranches(runs[k].inst)) =>
                /\ runs[k].navCalls = 1
                /\ runs[k].navHeight = 0
                /\ runs[k].stage \in {"policy", "offset", "scroll"}
                /\ SameOutcome(k, onMessage(runs[k].inst,
                                 [OptionsOf(runs[k].inst) EXCEPT !.navHeight = JSNum(0)],
                                 event[1], runs[k].seenY, frameTop, navEl))

\* the callback threw during a flow message, and the window was scrolled to
\* the frame's top plus the offset
WitnessC17 ==
    /\ event # <<>>
    /\ Len(runs) = 1
    /\ OptionsOf(1).navHeight = JSFun("throwing")
    /\ event[1].data = Flow(JSNum(2))
    /\ runs[1].navCalls = 1
    /\ runs[1].calls # <<>>
    /\ runs[1].calls[1].top = 6

\* the target of run r computed from the height the bar has now
TargetNow(r) ==
    Max(0, MathRound(
        (IF r.kind = "navigation" /\ OptionsOf(r.inst).navigateScrollTarget = JSStr("page")
         THEN 0 ELSE frameTop[1])
        + (IF r.kind = "flow" THEN ToNumber(Get(EventData, "spektrixOffset")).v ELSE 0)
        - RuleHeight(OptionsOf(r.inst), navEl)))

\* C18: every handling that gets past the frame lookup resolves the height
\* anew, once, from the callback or the selector as they answer then: the
\* height it uses and the target it computes are those of the layout at the
\* time of the message, whatever the layout was at earlier messages.
TheoremC18 ==
    event # <<>> =>
        \A k \in 1..Len(runs) :
            ReachesBranches(runs[k].inst) =>
                /\ runs[k].navHeight = RuleHeight(OptionsOf(runs[k].inst), navEl)
                /\ runs[k].navCalls + runs[k].queries =
                      (IF \/ OptionsOf(runs[k].inst).navHeight.t = "function"
                          \/ /\ OptionsOf(runs[k].inst).navHeight.t # "number"
                             /\ OptionsOf(runs[k].inst).navSelector # JSStr("")
                       THEN 1 ELSE 0)
                /\ runs[k].targets # <<>> => runs[k].targets = <<TargetNow(runs[k])>>

\* the bar, 2px high when the instance was created, is 0.5px high now, and a
\* navigation message scrolled the window to the frame's top less 0.5px
WitnessC18 ==
    /\ event # <<>>
    /\ NavigationMessage
    /\ Len(runs) = 1
    /\ OptionsOf(1).navHeight = Null
    /\ OptionsOf(1).navSelector = JSStr(DomNavSelector)
    /\ navEl = <<1>>
    /\ runs[1].queries = 1
    /\ runs[1].navHeight = 1
    /\ runs[1].targets = <<2>>
    /\ runs[1].calls # <<>>
    /\ scrollY = 2

\* the payload is of no recognized shape: neither a navigation event nor the
\* holder of a numeric, finite, strictly positive offset
UnrecognizedShape == ~NavigationEvent /\ ~PositiveOffset

\* run r did nothing to the window
NoOp(r) == r.targets = <<>> /\ r.calls = <<>> /\ r.leftY = r.seenY

\* C19: the handler ends as a no-op at the first precondition that fails, in
\* the order untrusted origin, unparseable payload, unrecognized event shape,
\* missing frame element, policy refusal: nothing of a later stage is done
\* (no frame lookup and no height resolution for an unrecognized shape).
ClaimC19 ==
    event # <<>> =>
        \A k \in 1..Len(runs) :
            IF UntrustedOrigin(event[1].origin, OptionsOf(runs[k].inst).domain)
            THEN NoOp(runs[k]) /\ runs[k].lookups = 0 /\ runs[k].navCalls + runs[k].queries = 0
            ELSE IF ~ToBoolean(EventData)
            THEN NoOp(runs[k]) /\ runs[k].lookups = 0 /\ runs[k].navCalls + runs[k].queries = 0
            ELSE IF UnrecognizedShape
            THEN NoOp(runs[k]) /\ runs[k].lookups = 0 /\ runs[k].navCalls + runs[k].queries = 0
            ELSE IF getElementById(OptionsOf(runs[k].inst).iframeId, frameTop) = <<>>
            THEN NoOp(runs[k]) /\ runs[k].lookups = 1 /\ runs[k].navCalls + runs[k].queries = 0
            ELSE runs[k].stage = "policy" => NoOp(runs[k])

\* what holds of the code: the order is untrusted origin, unparseable payload,
\* missing frame element, then, the height resolved, the shape and the policy;
\* each of them ends the handling as a no-op
HandlerOrder ==
    event # <<>> =>
        \A k \in 1..Len(runs) :
            IF UntrustedOrigin(event[1].origin, OptionsOf(runs[k].inst).domain)
            THEN NoOp(runs[k]) /\ runs[k].stage = "origin" /\ runs[k].lookups = 0
            ELSE IF ~ToBoolean(EventData)
            THEN NoOp(runs[k]) /\ runs[k].stage = "data" /\ runs[k].lookups = 0
            ELSE IF getElementById(OptionsOf(runs[k].inst).iframeId, frameTop) = <<>>
            THEN /\ NoOp(runs[k])
                 /\ runs[k].stage = "frame"
                 /\ runs[k].lookups = 1
                 /\ runs[k].navCalls + runs[k].queries = 0
            ELSE /\ runs[k].lookups = 1
                 /\ runs[k].stage \in {"policy", "offset", "scroll"}
                 /\ runs[k].stage \in {"policy", "offset"} => NoOp(runs[k])

\* the options of instance id with debug the other way round
DebugFlipped(id) ==
    [OptionsOf(id) EXCEPT !.debug = JSBool(~ToBoolean(OptionsOf(id).debug))]

\* C20: an instance that differs from the one that ran only in debug, given
\* the same message in the same window and layout, reaches the same stage and
\* makes the same window scroll calls with the same arguments; only the
\* console lines differ. (The calls being the same, so is the window each
\* next message finds.)
TheoremC20 ==
    event # <<>> =>
        \A k \in 1..Len(runs) :
            \E other \in {onMessage(runs[k].inst, DebugFlipped(runs[k].inst), event[1],
                                    runs[k].seenY, frameTop, navEl)} :
                /\ SameOutcome(k, other)
                /\ other.lookups = runs[k].lookups
                /\ other.navCalls = runs[k].navCalls
                /\ other.queries = runs[k].queries
                /\ other.navHeight = runs[k].navHeight

\* an instance with debug on refused a navigation jump down the page, and
\* wrote it to the console, which the instance with debug off does not
WitnessC20 ==
    /\ event # <<>>
    /\ NavigationMessage
    /\ Len(runs) = 1
    /\ OptionsOf(1).debug = JSBool(TRUE)
    /\ runs[1].stage = "scroll"
    /\ runs[1].calls = <<>>
    /\ runs[1].log # <<>>
    /\ onMessage(1, DebugFlipped(1), event[1], runs[1].seenY, frameTop, navEl).log = <<>>

====
